---------------------------- MODULE Spec2Model ----------------------------
(***************************************************************************)
(* State-machine model of the key-loading front end (backend/keys.rs) and  *)
(* of the elliptic-curve key objects (backend/ec.rs).                      *)
(*                                                                         *)
(* One action per exported function or method.  The private-key loaders    *)
(* hand a password callback to the parsing library, so a load is split     *)
(* into the call, the library's invocations of the callback, and the       *)
(* return of the parse (pc says where the load is).                        *)
(*                                                                         *)
(* Encoded input is modelled by what the parsing library finds in it (a    *)
(* blob descriptor), native keys by their key-type id, group, scalar and   *)
(* public point.  The domain parameters of every named curve are replaced  *)
(* by one small prime-order curve (ToyCurve); groups stay distinct by nid. *)
(***************************************************************************)
EXTENDS Integers, Sequences, FiniteSets, TLC

(***************************************************************************)
(* Bounds of the model.                                                    *)
(***************************************************************************)
\* how often the parsing library may invoke the password callback in a load
MaxCallbacks == 2
\* private values offered to derive_private_key / private numbers: 0..MaxScalar
MaxScalar == 4
\* affine coordinates offered to the numbers constructors: -1..MaxCoord
MaxCoord == 7

(***************************************************************************)
(* Build flavours: the cfg attributes of the two files.                    *)
(***************************************************************************)
VARIABLES
    build,      \* the library the crate was built against (fixed at start)
    pc,         \* "idle", or the private-key parse that is in flight
    call,       \* the call in progress, or the last one: operation and inputs
    status,     \* PasswordCallbackStatus of the load in progress / last load
    cbCount,    \* callback invocations made by the parse of this load
    attempts,   \* the parse routines this call has invoked, in order
    result,     \* outcome of the last completed call
    privKey,    \* the ECPrivateKey object the caller holds (or NoKey)
    pubKey      \* the ECPublicKey object the caller holds (or NoKey)

vars == <<build, pc, call, status, cbCount, attempts, result, privKey, pubKey>>

Builds == {"OPENSSL_3", "OPENSSL_1_1", "LIBRESSL_OLD", "LIBRESSL_380", "BORINGSSL"}

CRYPTOGRAPHY_IS_LIBRESSL == build \in {"LIBRESSL_OLD", "LIBRESSL_380"}
CRYPTOGRAPHY_LIBRESSL_380_OR_GREATER == build = "LIBRESSL_380"
CRYPTOGRAPHY_IS_BORINGSSL == build = "BORINGSSL"
CRYPTOGRAPHY_OPENSSL_300_OR_GREATER == build = "OPENSSL_3"

(***************************************************************************)
(* Values.                                                                 *)
(***************************************************************************)
NoPassword == "<none>"
Passwords == {"correct", "wrong"}

Inf == <<>>                      \* the point at infinity
NoPoint == <<-1>>                \* "no EC point" (keys of other families)
NoName == "<no name attribute>"
NoCurve == [isCurve |-> FALSE, name |-> "<none>"]
NoGroup == [nid |-> "<none>", asn1 |-> "<none>"]
NoKey == [kind |-> "none", family |-> "none", curve |-> NoCurve,
          group |-> NoGroup, priv |-> -1, point |-> NoPoint]

\* an ECDSA signature as the verifier sees it: DER of (r, s) made by the key
\* with public point `point` on group `nid` over `digest`, or bytes that
\* are not such DER
NoDigest == "<no digest>"
Signature(form, nid, point, digest) ==
    [form |-> form, nid |-> nid, point |-> point, digest |-> digest]
NoSignature == Signature("none", "<none>", NoPoint, NoDigest)

\* EllipticCurvePrivateNumbers / EllipticCurvePublicNumbers (ec.rs 439-455)
Numbers(private_value, x, y, curve) ==
    [private_value |-> private_value, x |-> x, y |-> y, curve |-> curve]
NoNumbers == Numbers(-1, -1, -1, NoCurve)

\* the outcome of a call: an error, a key object or a boolean; routed names
\* the family constructor that was invoked, id and via the key-type id the
\* algorithm-family dispatch switched on and which of the two dispatches,
\* checked whether check_key_infinity was applied to the key returned
NoResult == [kind |-> "none", err |-> "none", key |-> NoKey, routed |-> "none",
             id |-> "none", via |-> "none", warned |-> FALSE, value |-> FALSE,
             int |-> -1, sig |-> NoSignature, numbers |-> NoNumbers,
             encoded |-> "none", checked |-> FALSE]
Ok(r) == r.kind = "ok"
Err(e) == [NoResult EXCEPT !.kind = "err", !.err = e]
OkKey(k, fam) == [NoResult EXCEPT !.kind = "ok", !.key = k, !.routed = fam]
OkBool(b) == [NoResult EXCEPT !.kind = "ok", !.value = b]
OkUnit == [NoResult EXCEPT !.kind = "ok"]
OkInt(n) == [NoResult EXCEPT !.kind = "ok", !.int = n]
OkSignature(sig) == [NoResult EXCEPT !.kind = "ok", !.sig = sig]
OkNumbers(n) == [NoResult EXCEPT !.kind = "ok", !.numbers = n]
OkEncoded(e) == [NoResult EXCEPT !.kind = "ok", !.encoded = e]
OkObject(k) == [NoResult EXCEPT !.kind = "ok", !.key = k]

\* error outcomes (exception class and message of the source)
E_CurveType == "TypeError: curve must be an EllipticCurve instance"
E_Deprecated == "DeprecationWarning raised as an error"
E_NoNameAttr == "AttributeError: name"
E_CurveUnsupported == "UnsupportedAlgorithm: curve is not supported"
E_ExplicitParams == "ValueError: ECDSA keys with explicit parameters are unsupported at this time"
E_NotSupportedCurve == "UnsupportedAlgorithm: not a supported elliptic curve"
E_Infinity == "ValueError: Cannot load an EC public key where the point is at infinity"
E_InvalidECKey == "ValueError: Invalid EC key."
E_Negative == "ValueError: Invalid EC key. Both x and y must be non-negative."
E_NotOnCurve == "ValueError: Invalid EC key. Point is not on the curve specified."
E_UnsupportedKeyType == "UnsupportedAlgorithm: Unsupported key type."
E_InvalidRsaKey == "ValueError: Invalid private key"
E_NotAnECKey == "OpenSSLError: the key is not an EC key"
E_PasswordGiven == "TypeError: Password was given but private key is not encrypted."
E_UnsupportedExchange == "UnsupportedAlgorithm: Unsupported EC exchange algorithm"
E_SharedKey == "ValueError: Error computing shared key."
E_UnsupportedSignature == "UnsupportedAlgorithm: Unsupported elliptic curve signature algorithm"
E_InvalidSignature == "InvalidSignature"
E_PointAtInfinity == "OpenSSLError: point at infinity"
E_Serialization == "TypeError / ValueError: unsupported encoding or format"
E_NoKeySize == "AttributeError: key_size"
E_DigestLength == "ValueError: The provided data must be the same length as the hash algorithm's digest size."

(***************************************************************************)
(* Curve registry (ec.rs 28-119).                                          *)
(***************************************************************************)
\* the match of curve_from_py_curve: curve name -> native nid
CurveTable ==
    [n \in {"secp192r1", "secp224r1", "secp256r1", "secp384r1", "secp521r1",
            "secp256k1", "sect233r1", "sect283r1", "sect409r1", "sect571r1",
            "sect163r2", "sect163k1", "sect233k1", "sect283k1", "sect409k1",
            "sect571k1", "brainpoolP256r1", "brainpoolP384r1",
            "brainpoolP512r1"} |->
        CASE n = "secp192r1" -> "X9_62_PRIME192V1"
          [] n = "secp224r1" -> "SECP224R1"
          [] n = "secp256r1" -> "X9_62_PRIME256V1"
          [] n = "secp384r1" -> "SECP384R1"
          [] n = "secp521r1" -> "SECP521R1"
          [] n = "secp256k1" -> "SECP256K1"
          [] n = "sect233r1" -> "SECT233R1"
          [] n = "sect283r1" -> "SECT283R1"
          [] n = "sect409r1" -> "SECT409R1"
          [] n = "sect571r1" -> "SECT571R1"
          [] n = "sect163r2" -> "SECT163R2"
          [] n = "sect163k1" -> "SECT163K1"
          [] n = "sect233k1" -> "SECT233K1"
          [] n = "sect283k1" -> "SECT283K1"
          [] n = "sect409k1" -> "SECT409K1"
          [] n = "sect571k1" -> "SECT571K1"
          [] n = "brainpoolP256r1" -> "BRAINPOOL_P256R1"
          [] n = "brainpoolP384r1" -> "BRAINPOOL_P384R1"
          [] n = "brainpoolP512r1" -> "BRAINPOOL_P512R1"]

BrainpoolNames == {"brainpoolP256r1", "brainpoolP384r1", "brainpoolP512r1"}

\* the arms of the match that the build compiles in
CurveNames ==
    IF CRYPTOGRAPHY_IS_BORINGSSL THEN DOMAIN CurveTable \ BrainpoolNames
    ELSE DOMAIN CurveTable

\* EcGroup::from_curve_name: a named group (asn1 flag NAMED_CURVE)
from_curve_name(nid) == [nid |-> nid, asn1 |-> "NAMED_CURVE"]

Resolved(g, w) == [ok |-> TRUE, err |-> "none", group |-> g, warned |-> w]
Unresolved(e, w) == [ok |-> FALSE, err |-> e, group |-> NoGroup, warned |-> w]

\* the lookup of the name, after the instance test has been passed
curve_name_lookup(py_curve, warned) ==
    IF py_curve.name = NoName THEN Unresolved(E_NoNameAttr, warned)
    ELSE IF py_curve.name \notin CurveNames
         THEN Unresolved(E_CurveUnsupported, warned)
    ELSE Resolved(from_curve_name(CurveTable[py_curve.name]), warned)

\* curve_from_py_curve with the leniency granted to every caller
curve_from_py_curve_always_lenient(py_curve, allow_curve_class, werror) ==
    IF ~py_curve.isCurve
    THEN IF werror THEN Unresolved(E_Deprecated, TRUE)
         ELSE curve_name_lookup(py_curve, TRUE)
    ELSE curve_name_lookup(py_curve, FALSE)

\* curve_from_py_curve(py, py_curve, allow_curve_class); werror: the
\* interpreter's warning filter turns the deprecation warning into an error
curve_from_py_curve(py_curve, allow_curve_class, werror) ==
    IF ~py_curve.isCurve
    THEN IF allow_curve_class
         THEN IF werror THEN Unresolved(E_Deprecated, TRUE)
              ELSE curve_name_lookup(py_curve, TRUE)
         ELSE Unresolved(E_CurveType, FALSE)
    ELSE curve_name_lookup(py_curve, FALSE)

\* OBJ_nid2sn: the short name of a nid
short_name(nid) ==
    CASE nid = "X9_62_PRIME192V1" -> "prime192v1"
      [] nid = "X9_62_PRIME256V1" -> "prime256v1"
      [] nid = "SECP224R1" -> "secp224r1"
      [] nid = "SECP384R1" -> "secp384r1"
      [] nid = "SECP521R1" -> "secp521r1"
      [] nid = "SECP256K1" -> "secp256k1"
      [] nid = "SECT233R1" -> "sect233r1"
      [] nid = "SECT283R1" -> "sect283r1"
      [] nid = "SECT409R1" -> "sect409r1"
      [] nid = "SECT571R1" -> "sect571r1"
      [] nid = "SECT163R2" -> "sect163r2"
      [] nid = "SECT163K1" -> "sect163k1"
      [] nid = "SECT233K1" -> "sect233k1"
      [] nid = "SECT283K1" -> "sect283k1"
      [] nid = "SECT409K1" -> "sect409k1"
      [] nid = "SECT571K1" -> "sect571k1"
      [] nid = "BRAINPOOL_P256R1" -> "brainpoolP256r1"
      [] nid = "BRAINPOOL_P384R1" -> "brainpoolP384r1"
      [] nid = "BRAINPOOL_P512R1" -> "brainpoolP512r1"
      [] nid = "SECP112R1" -> "secp112r1"
      [] OTHER -> "<unknown>"

\* types::CURVE_TYPES: short name -> curve descriptor (an EllipticCurve
\* instance whose name is the registry's name for the curve)
CURVE_TYPES ==
    [sn \in (DOMAIN CurveTable \ {"secp192r1", "secp256r1"})
              \cup {"prime192v1", "prime256v1", "secp192r1", "secp256r1"} |->
        [isCurve |-> TRUE,
         name |-> CASE sn = "prime192v1" -> "secp192r1"
                    [] sn = "prime256v1" -> "secp256r1"
                    [] OTHER -> sn]]

Described(c) == [ok |-> TRUE, err |-> "none", curve |-> c]
Undescribed(e) == [ok |-> FALSE, err |-> e, curve |-> NoCurve]

\* py_curve_from_curve without the test of the explicit-parameters flag
py_curve_from_curve_allowing_explicit(group) ==
    IF group.nid = "<none>" THEN Undescribed(E_ExplicitParams)
    ELSE IF short_name(group.nid) \notin DOMAIN CURVE_TYPES
         THEN Undescribed(E_NotSupportedCurve)
    ELSE Described(CURVE_TYPES[short_name(group.nid)])

\* py_curve_from_curve(py, curve)
py_curve_from_curve(group) ==
    IF group.nid = "<none>" THEN Undescribed(E_ExplicitParams)
    ELSE IF group.asn1 = "EXPLICIT_CURVE" THEN Undescribed(E_ExplicitParams)
    ELSE IF short_name(group.nid) \notin DOMAIN CURVE_TYPES
         THEN Undescribed(E_NotSupportedCurve)
    ELSE Described(CURVE_TYPES[short_name(group.nid)])

(***************************************************************************)
(* Curve arithmetic of the underlying library, on the stand-in curve       *)
(* y^2 = x^3 + 4 over GF(7): prime order 3, generator (0, 2).              *)
(***************************************************************************)
ToyCurve == [p |-> 7, a |-> 0, b |-> 4, gx |-> 0, gy |-> 2, n |-> 3]

Generator == <<ToyCurve.gx, ToyCurve.gy>>

FMod(v) == ((v % ToyCurve.p) + ToyCurve.p) % ToyCurve.p
FInv(v) == CHOOSE w \in 1..(ToyCurve.p - 1) : FMod(v * w) = 1

\* EC_POINT_is_on_curve for reduced affine coordinates
OnCurve(x, y) ==
    FMod(y * y) = FMod(x * x * x + ToyCurve.a * x + ToyCurve.b)

FinitePoints ==
    {pt \in (0..(ToyCurve.p - 1)) \X (0..(ToyCurve.p - 1)) : OnCurve(pt[1], pt[2])}

PointAdd(p1, p2) ==
    IF p1 = Inf THEN p2
    ELSE IF p2 = Inf THEN p1
    ELSE IF p1[1] = p2[1] /\ FMod(p1[2] + p2[2]) = 0 THEN Inf
    ELSE LET lam == IF p1 = p2
                    THEN FMod((3 * p1[1] * p1[1] + ToyCurve.a) * FInv(2 * p1[2]))
                    ELSE FMod((p2[2] - p1[2]) * FInv(FMod(p2[1] - p1[1])))
             x3 == FMod(lam * lam - p1[1] - p2[1])
         IN <<x3, FMod(lam * (p1[1] - x3) - p1[2])>>

RECURSIVE PointMul(_, _)
PointMul(k, pt) == IF k = 0 THEN Inf ELSE PointAdd(pt, PointMul(k - 1, pt))

\* EcPoint::mul_generator
mul_generator(scalar) == PointMul(scalar, Generator)

\* EcPointRef::is_infinity
is_infinity(point) == point = Inf

\* check_key_infinity(ec): TRUE when the check passes
check_key_infinity(ec) == ~is_infinity(ec.point)

\* EC_POINT_set_affine_coordinates: the coordinates are reduced into the
\* field (BoringSSL instead refuses coordinates outside 0..p-1), then the
\* point must be on the curve
set_affine_coordinates_gfp(x, y) ==
    IF CRYPTOGRAPHY_IS_BORINGSSL /\ ({x, y} \cap (0..(ToyCurve.p - 1)) # {x, y})
    THEN [ok |-> FALSE, point |-> NoPoint]
    ELSE IF OnCurve(FMod(x), FMod(y))
    THEN [ok |-> TRUE, point |-> <<FMod(x), FMod(y)>>]
    ELSE [ok |-> FALSE, point |-> NoPoint]

\* EcPoint::from_bytes (EC_POINT_oct2point): <<0>> is the point at infinity,
\* <<4, x, y>> an uncompressed point, <<2, x>> / <<3, x>> a compressed one
from_bytes(data) ==
    IF data = <<0>> THEN [ok |-> TRUE, point |-> Inf]
    ELSE IF Len(data) = 3 /\ data[1] = 4
            /\ data[2] \in 0..(ToyCurve.p - 1) /\ data[3] \in 0..(ToyCurve.p - 1)
            /\ OnCurve(data[2], data[3])
         THEN [ok |-> TRUE, point |-> <<data[2], data[3]>>]
    ELSE IF Len(data) = 2 /\ data[1] \in {2, 3}
            /\ \E y \in 0..(ToyCurve.p - 1) :
                   OnCurve(data[2], y) /\ y % 2 = data[1] - 2
         THEN [ok |-> TRUE,
               point |-> <<data[2], CHOOSE y \in 0..(ToyCurve.p - 1) :
                                       OnCurve(data[2], y) /\ y % 2 = data[1] - 2>>]
    ELSE [ok |-> FALSE, point |-> NoPoint]

(***************************************************************************)
(* EC key objects (ec.rs 14-26) and their constructors (ec.rs 139-221).    *)
(***************************************************************************)
\* a native key (EVP_PKEY): key-type id, EC group, private scalar, point
PKey(id, group, priv, point, valid) ==
    [id |-> id, group |-> group, priv |-> priv, point |-> point, valid |-> valid]

ECPrivateKey(pkey, curve) ==
    [kind |-> "private", family |-> "EC", curve |-> curve,
     group |-> pkey.group, priv |-> pkey.priv, point |-> pkey.point]

ECPublicKey(pkey, curve) ==
    [kind |-> "public", family |-> "EC", curve |-> curve,
     group |-> pkey.group, priv |-> -1, point |-> pkey.point]

Warned(r, w) == [r EXCEPT !.warned = w]
Checked(r) == [r EXCEPT !.checked = TRUE]

\* ec::private_key_from_pkey(py, pkey)
ec_private_key_from_pkey(pkey) ==
    LET curve == py_curve_from_curve(pkey.group) IN
    IF ~curve.ok THEN Err(curve.err)
    ELSE IF ~check_key_infinity(pkey) THEN Err(E_Infinity)
    ELSE Checked(OkKey(ECPrivateKey(pkey, curve.curve), "EC"))

\* ec::public_key_from_pkey(py, pkey)
ec_public_key_from_pkey(pkey) ==
    IF pkey.id # "EC" THEN Err(E_NotAnECKey)
    ELSE LET curve == py_curve_from_curve(pkey.group) IN
         IF ~curve.ok THEN Err(curve.err)
         ELSE IF ~check_key_infinity(pkey) THEN Err(E_Infinity)
         ELSE Checked(OkKey(ECPublicKey(pkey, curve.curve), "EC"))

\* generate_private_key(py, curve, backend); d is the scalar EcKey::generate
\* draws from 1..n-1
generate_private_key(curve, werror, d) ==
    LET ossl_curve == curve_from_py_curve(curve, TRUE, werror) IN
    IF ~ossl_curve.ok THEN Warned(Err(ossl_curve.err), ossl_curve.warned)
    ELSE LET key == PKey("EC", ossl_curve.group, d, mul_generator(d), TRUE)
             py_curve == py_curve_from_curve(ossl_curve.group)
         IN IF ~py_curve.ok THEN Warned(Err(py_curve.err), ossl_curve.warned)
            ELSE Warned(OkKey(ECPrivateKey(key, py_curve.curve), "EC"),
                        ossl_curve.warned)

\* derive_private_key(py, py_private_value, py_curve)
derive_private_key(private_value, py_curve) ==
    LET curve == curve_from_py_curve(py_curve, FALSE, FALSE) IN
    IF ~curve.ok THEN Err(curve.err)
    ELSE LET ec == PKey("EC", curve.group, private_value,
                        mul_generator(private_value), TRUE)
         IN IF ~check_key_infinity(ec) THEN Err(E_Infinity)
            ELSE Checked(OkKey(ECPrivateKey(ec, py_curve), "EC"))

\* from_public_bytes(py, py_curve, data)
from_public_bytes(py_curve, data) ==
    LET curve == curve_from_py_curve(py_curve, FALSE, FALSE) IN
    IF ~curve.ok THEN Err(curve.err)
    ELSE LET point == from_bytes(data) IN
         IF ~point.ok THEN Err(E_InvalidECKey)
         ELSE OkKey(ECPublicKey(PKey("EC", curve.group, -1, point.point, TRUE),
                                py_curve), "EC")

\* curve_supported(py, py_curve)
curve_supported(py_curve) == OkBool(curve_from_py_curve(py_curve, FALSE, FALSE).ok)

\* the key_size attribute of the EllipticCurve descriptors
KeySizes == [n \in {"secp256r1", "brainpoolP256r1"} |-> 256]

\* ECPrivateKey::key_size / ECPublicKey::key_size
key_size(self) ==
    IF self.curve.name \in DOMAIN KeySizes THEN OkInt(KeySizes[self.curve.name])
    ELSE Err(E_NoKeySize)

\* EcPointRef::affine_coordinates: there are none for the point at infinity
affine_coordinates(point) ==
    IF is_infinity(point) THEN [ok |-> FALSE, x |-> -1, y |-> -1]
    ELSE [ok |-> TRUE, x |-> point[1], y |-> point[2]]

\* ECPrivateKey::private_numbers(&self, py)
ECPrivateKey_private_numbers(self) ==
    LET xy == affine_coordinates(self.point) IN
    IF ~xy.ok THEN Err(E_PointAtInfinity)
    ELSE OkNumbers(Numbers(self.priv, xy.x, xy.y, self.curve))

\* ECPublicKey::public_numbers(&self, py)
ECPublicKey_public_numbers(self) ==
    LET xy == affine_coordinates(self.point) IN
    IF ~xy.ok THEN Err(E_PointAtInfinity)
    ELSE OkNumbers(Numbers(-1, xy.x, xy.y, self.curve))

\* utils::pkey_private_bytes / utils::pkey_public_bytes: the key encoded as
\* asked, or an error for an encoding the key type does not have
pkey_bytes(self, encoding) ==
    IF encoding \in {"DER", "PEM"}
    THEN OkEncoded(encoding \o " " \o self.kind \o " key on " \o self.curve.name)
    ELSE Err(E_Serialization)

\* ECPrivateKey::private_bytes(slf, py, encoding, format, encryption_algorithm)
ECPrivateKey_private_bytes(slf, encoding) == pkey_bytes(slf, encoding)

\* ECPublicKey::public_bytes(slf, py, encoding, format)
ECPublicKey_public_bytes(slf, encoding) == pkey_bytes(slf, encoding)

\* ECPublicKey::__eq__(&self, other): PKeyRef::public_eq
ECPublicKey_eq(self, other) ==
    OkBool(self.group.nid = other.group.nid /\ self.point = other.point)

\* ECPublicKey::__copy__(slf): the object itself
ECPublicKey_copy(slf) == OkObject(slf)

\* ECPrivateKey::public_key carrying the private scalar along
ECPrivateKey_public_key_with_scalar(self) ==
    OkKey([ECPublicKey(PKey("EC", self.group, -1, self.point, TRUE), self.curve)
               EXCEPT !.priv = self.priv], "EC")

\* ECPrivateKey::public_key(&self, py)
ECPrivateKey_public_key(self) ==
    OkKey(ECPublicKey(PKey("EC", self.group, -1, self.point, TRUE), self.curve), "EC")

(***************************************************************************)
(* Operations of the key objects (ec.rs 223-437).                          *)
(***************************************************************************)
\* an algorithm descriptor: the interface it is an instance of and, for
\* ECDSA, whether its hash is Prehashed
Algorithm(iface, prehashed) == [iface |-> iface, prehashed |-> prehashed]

\* data handed to sign / verify: a message, a digest computed by the
\* caller, or bytes too short to be a digest
Data(kind, m) == [kind |-> kind, m |-> m]

Digested(d) == [ok |-> TRUE, err |-> "none", digest |-> d]
NotDigested(e) == [ok |-> FALSE, err |-> e, digest |-> NoDigest]

\* utils::calculate_digest_and_algorithm(py, data, algorithm): Prehashed
\* data must have the digest's length, other data is hashed
calculate_digest_and_algorithm(data, algorithm) ==
    IF algorithm.prehashed
    THEN IF data.kind = "digest" THEN Digested(data.m)
         ELSE NotDigested(E_DigestLength)
    ELSE Digested(IF data.kind = "message" THEN "H(" \o data.m \o ")"
                  ELSE "H(" \o data.kind \o ":" \o data.m \o ")")

\* PkeyCtx::verify: an error for bytes the verifier cannot take as a
\* signature, else whether the signature is one of this key over this digest
verify(pkey, digest, signature) ==
    IF signature.form # "der" THEN [ok |-> FALSE, valid |-> FALSE]
    ELSE [ok |-> TRUE,
          valid |-> /\ signature.nid = pkey.group.nid
                    /\ signature.point = pkey.point
                    /\ signature.digest = digest]

\* PkeyCtx::sign_to_vec
sign_to_vec(pkey, digest) == Signature("der", pkey.group.nid, pkey.point, digest)

\* Deriver::set_peer_ex(peer, validate): the peer must have the parameters
\* of the key and, when validated, a valid point
set_peer_ex(pkey, peer, validate) ==
    /\ peer.group.nid = pkey.group.nid
    /\ validate => ~is_infinity(peer.point)

\* Deriver::set_peer(peer) of the libraries that have no set_peer_ex: the
\* parameters are compared, the point is not examined
set_peer(pkey, peer) == peer.group.nid = pkey.group.nid

\* Deriver::derive: the x coordinate of priv * peer point
derive(pkey, peer) ==
    LET shared == PointMul(pkey.priv, peer.point) IN
    IF shared = Inf THEN [ok |-> FALSE, secret |-> -1]
    ELSE [ok |-> TRUE, secret |-> shared[1]]


\* ECPrivateKey::exchange without the test of the algorithm descriptor
ECPrivateKey_exchange_any_algorithm(self, algorithm, public_key) ==
    IF ~(IF CRYPTOGRAPHY_OPENSSL_300_OR_GREATER
         THEN set_peer_ex(self, public_key, FALSE)
         ELSE set_peer(self, public_key))
    THEN Err(E_SharedKey)
    ELSE LET n == derive(self, public_key) IN
         IF ~n.ok THEN Err(E_SharedKey) ELSE OkInt(n.secret)

\* ECPrivateKey::exchange(&self, py, algorithm, public_key)
ECPrivateKey_exchange(self, algorithm, public_key) ==
    IF algorithm.iface # "ECDH" THEN Err(E_UnsupportedExchange)
    ELSE IF ~(IF CRYPTOGRAPHY_OPENSSL_300_OR_GREATER
              THEN set_peer_ex(self, public_key, FALSE)
              ELSE set_peer(self, public_key))
         THEN Err(E_SharedKey)
    ELSE LET n == derive(self, public_key) IN
         IF ~n.ok THEN Err(E_SharedKey) ELSE OkInt(n.secret)

\* ECPrivateKey::sign(&self, py, data, algorithm)
ECPrivateKey_sign(self, data, algorithm) ==
    IF algorithm.iface # "ECDSA" THEN Err(E_UnsupportedSignature)
    ELSE LET digest == calculate_digest_and_algorithm(data, algorithm) IN
         IF ~digest.ok THEN Err(digest.err)
         ELSE OkSignature(sign_to_vec(self, digest.digest))

\* ECPublicKey::verify(&self, py, signature, data, signature_algorithm)
ECPublicKey_verify(self, signature, data, signature_algorithm) ==
    IF signature_algorithm.iface # "ECDSA" THEN Err(E_UnsupportedSignature)
    ELSE LET digest == calculate_digest_and_algorithm(data, signature_algorithm) IN
         IF ~digest.ok THEN Err(digest.err)
         ELSE LET checked == verify(self, digest.digest, signature)
                  valid == IF checked.ok THEN checked.valid ELSE FALSE
              IN IF ~valid THEN Err(E_InvalidSignature) ELSE OkUnit

(***************************************************************************)
(* Numbers objects (ec.rs 439-597).                                        *)
(***************************************************************************)
\* public_key_from_numbers without the test of the signs
public_key_from_numbers_unsigned(x, y, curve) ==
    LET point == set_affine_coordinates_gfp(x, y) IN
    IF ~point.ok THEN [ok |-> FALSE, err |-> E_NotOnCurve, key |-> NoKey]
    ELSE [ok |-> TRUE, err |-> "none",
          key |-> PKey("EC", curve, -1, point.point, TRUE)]

\* public_key_from_numbers(py, numbers, curve)
public_key_from_numbers(x, y, curve) ==
    IF x < 0 \/ y < 0 THEN [ok |-> FALSE, err |-> E_Negative, key |-> NoKey]
    ELSE LET point == set_affine_coordinates_gfp(x, y) IN
         IF ~point.ok THEN [ok |-> FALSE, err |-> E_NotOnCurve, key |-> NoKey]
         ELSE [ok |-> TRUE, err |-> "none",
               key |-> PKey("EC", curve, -1, point.point, TRUE)]

\* EllipticCurvePublicNumbers::public_key(&self, py, backend)
EllipticCurvePublicNumbers_public_key(x, y, numbers_curve) ==
    LET curve == curve_from_py_curve(numbers_curve, FALSE, FALSE) IN
    IF ~curve.ok THEN Err(curve.err)
    ELSE LET public_key == public_key_from_numbers(x, y, curve.group) IN
         IF ~public_key.ok THEN Err(public_key.err)
         ELSE OkKey(ECPublicKey(public_key.key, numbers_curve), "EC")

\* EllipticCurvePrivateNumbers::private_key without the comparison of the
\* supplied point with generator * private_value
EllipticCurvePrivateNumbers_private_key_uncompared(private_value, x, y, numbers_curve) ==
    LET curve == curve_from_py_curve(numbers_curve, FALSE, FALSE) IN
    IF ~curve.ok THEN Err(curve.err)
    ELSE LET public_key == public_key_from_numbers(x, y, curve.group) IN
         IF ~public_key.ok THEN Err(public_key.err)
         ELSE OkKey(ECPrivateKey(PKey("EC", curve.group, private_value,
                                      public_key.key.point, TRUE),
                                 numbers_curve), "EC")

\* EllipticCurvePrivateNumbers::private_key(&self, py, backend)
EllipticCurvePrivateNumbers_private_key(private_value, x, y, numbers_curve) ==
    LET curve == curve_from_py_curve(numbers_curve, FALSE, FALSE) IN
    IF ~curve.ok THEN Err(curve.err)
    ELSE LET public_key == public_key_from_numbers(x, y, curve.group) IN
         IF ~public_key.ok THEN Err(public_key.err)
         ELSE LET expected_pub == mul_generator(private_value) IN
              IF expected_pub # public_key.key.point THEN Err(E_InvalidECKey)
              ELSE OkKey(ECPrivateKey(PKey("EC", curve.group, private_value,
                                           public_key.key.point, TRUE),
                                      numbers_curve), "EC")

(***************************************************************************)
(* Algorithm-family dispatch (keys.rs 75-129, 175-211).                    *)
(***************************************************************************)
KeyIds == {"RSA", "RSA_PSS", "EC", "X25519", "X448", "ED25519", "ED448",
           "DSA", "DH", "DHX", "CMAC"}

\* a key object of a sibling family (implemented outside these two files)
FamilyKey(kind, family) ==
    [kind |-> kind, family |-> family, curve |-> NoCurve, group |-> NoGroup,
     priv |-> -1, point |-> NoPoint]

\* rsa::private_key_from_pkey(pkey, unsafe_skip_rsa_key_validation)
rsa_private_key_from_pkey(pkey, unsafe_skip_rsa_key_validation) ==
    IF ~unsafe_skip_rsa_key_validation /\ ~pkey.valid
    THEN [Err(E_InvalidRsaKey) EXCEPT !.routed = "RSA"]
    ELSE OkKey(FamilyKey("private", "RSA"), "RSA")

\* the arms of the two matches that the build leaves out
NotOnLibreOrBoring == ~CRYPTOGRAPHY_IS_LIBRESSL /\ ~CRYPTOGRAPHY_IS_BORINGSSL
RsaPssArm == ~CRYPTOGRAPHY_IS_LIBRESSL \/ CRYPTOGRAPHY_LIBRESSL_380_OR_GREATER

Routed(r, fam) == [r EXCEPT !.routed = fam]
Dispatched(r, id, via) == [r EXCEPT !.id = id, !.via = via]

\* keys::private_key_from_pkey without the RSA_PSS arm
private_key_from_pkey_without_pss_arm(pkey, unsafe_skip_rsa_key_validation) ==
  Dispatched(
    CASE pkey.id = "RSA" ->
            rsa_private_key_from_pkey(pkey, unsafe_skip_rsa_key_validation)
      [] pkey.id = "EC" -> Routed(ec_private_key_from_pkey(pkey), "EC")
      [] pkey.id = "X25519" -> OkKey(FamilyKey("private", "X25519"), "X25519")
      [] pkey.id = "X448" /\ NotOnLibreOrBoring ->
            OkKey(FamilyKey("private", "X448"), "X448")
      [] pkey.id = "ED25519" -> OkKey(FamilyKey("private", "ED25519"), "ED25519")
      [] pkey.id = "ED448" /\ NotOnLibreOrBoring ->
            OkKey(FamilyKey("private", "ED448"), "ED448")
      [] pkey.id = "DSA" -> OkKey(FamilyKey("private", "DSA"), "DSA")
      [] pkey.id = "DH" -> OkKey(FamilyKey("private", "DH"), "DH")
      [] pkey.id = "DHX" /\ NotOnLibreOrBoring ->
            OkKey(FamilyKey("private", "DH"), "DH")
      [] OTHER -> Err(E_UnsupportedKeyType),
    pkey.id, "private")

\* keys::private_key_from_pkey(py, pkey, unsafe_skip_rsa_key_validation)
private_key_from_pkey(pkey, unsafe_skip_rsa_key_validation) ==
  Dispatched(
    CASE pkey.id = "RSA" ->
            rsa_private_key_from_pkey(pkey, unsafe_skip_rsa_key_validation)
      [] pkey.id = "RSA_PSS" /\ RsaPssArm ->
            \* serialized and reloaded as a plain RSA key
            rsa_private_key_from_pkey([pkey EXCEPT !.id = "RSA"],
                                      unsafe_skip_rsa_key_validation)
      [] pkey.id = "EC" -> Routed(ec_private_key_from_pkey(pkey), "EC")
      [] pkey.id = "X25519" -> OkKey(FamilyKey("private", "X25519"), "X25519")
      [] pkey.id = "X448" /\ NotOnLibreOrBoring ->
            OkKey(FamilyKey("private", "X448"), "X448")
      [] pkey.id = "ED25519" -> OkKey(FamilyKey("private", "ED25519"), "ED25519")
      [] pkey.id = "ED448" /\ NotOnLibreOrBoring ->
            OkKey(FamilyKey("private", "ED448"), "ED448")
      [] pkey.id = "DSA" -> OkKey(FamilyKey("private", "DSA"), "DSA")
      [] pkey.id = "DH" -> OkKey(FamilyKey("private", "DH"), "DH")
      [] pkey.id = "DHX" /\ NotOnLibreOrBoring ->
            OkKey(FamilyKey("private", "DH"), "DH")
      [] OTHER -> Err(E_UnsupportedKeyType),
    pkey.id, "private")

\* keys::public_key_from_pkey switching on the key's own type instead of id
public_key_from_pkey_by_key_type(pkey, id) ==
  Dispatched(
    CASE pkey.id = "RSA" -> OkKey(FamilyKey("public", "RSA"), "RSA")
      [] pkey.id = "EC" -> Routed(ec_public_key_from_pkey(pkey), "EC")
      [] pkey.id = "X25519" -> OkKey(FamilyKey("public", "X25519"), "X25519")
      [] pkey.id = "X448" /\ NotOnLibreOrBoring ->
            OkKey(FamilyKey("public", "X448"), "X448")
      [] pkey.id = "ED25519" -> OkKey(FamilyKey("public", "ED25519"), "ED25519")
      [] pkey.id = "ED448" /\ NotOnLibreOrBoring ->
            OkKey(FamilyKey("public", "ED448"), "ED448")
      [] pkey.id = "DSA" -> OkKey(FamilyKey("public", "DSA"), "DSA")
      [] pkey.id = "DH" -> OkKey(FamilyKey("public", "DH"), "DH")
      [] pkey.id = "DHX" /\ NotOnLibreOrBoring ->
            OkKey(FamilyKey("public", "DH"), "DH")
      [] OTHER -> Err(E_UnsupportedKeyType),
    id, "public")

\* keys::public_key_from_pkey(py, pkey, id)
public_key_from_pkey(pkey, id) ==
  Dispatched(
    CASE id = "RSA" -> OkKey(FamilyKey("public", "RSA"), "RSA")
      [] id = "EC" -> Routed(ec_public_key_from_pkey(pkey), "EC")
      [] id = "X25519" -> OkKey(FamilyKey("public", "X25519"), "X25519")
      [] id = "X448" /\ NotOnLibreOrBoring ->
            OkKey(FamilyKey("public", "X448"), "X448")
      [] id = "ED25519" -> OkKey(FamilyKey("public", "ED25519"), "ED25519")
      [] id = "ED448" /\ NotOnLibreOrBoring ->
            OkKey(FamilyKey("public", "ED448"), "ED448")
      [] id = "DSA" -> OkKey(FamilyKey("public", "DSA"), "DSA")
      [] id = "DH" -> OkKey(FamilyKey("public", "DH"), "DH")
      [] id = "DHX" /\ NotOnLibreOrBoring ->
            OkKey(FamilyKey("public", "DH"), "DH")
      [] OTHER -> Err(E_UnsupportedKeyType),
    id, "public")

(***************************************************************************)
(* Password callback (utils::password_callback, handle_key_load_result).   *)
(***************************************************************************)
E_NotEncrypted == E_PasswordGiven
E_PasswordRequired == "PasswordError: Password was not given but private key is encrypted"
E_WrongPassword == "PasswordError: Bad decrypt. Incorrect password?"
E_Ambiguous == "PasswordError: ambiguous password usage"
E_Malformed == "MalformedEncoding: Could not deserialize key data."

PasswordErrors == {E_NotEncrypted, E_PasswordRequired, E_WrongPassword, E_Ambiguous}

NoStatus == "<no load>"

\* the status after one more invocation of the callback
password_callback(st) == IF st = "Unused" THEN "UsedOnce" ELSE "Ambiguous"

Parsed(k) == [ok |-> TRUE, err |-> "none", key |-> k]
ParseError(e) == [ok |-> FALSE, err |-> e, key |-> NoKey]

\* utils::handle_key_load_result(py, pkey, status, password)
handle_key_load_result(pkey, st, password) ==
    IF st = "Ambiguous" THEN ParseError(E_Ambiguous)
    ELSE IF pkey.ok /\ st = "Unused" /\ password = NoPassword THEN pkey
    ELSE IF pkey.ok /\ st = "UsedOnce" /\ password # NoPassword THEN pkey
    ELSE IF pkey.ok /\ st = "Unused" THEN ParseError(E_NotEncrypted)
    ELSE IF st = "UsedOnce" /\ password = NoPassword
         THEN ParseError(E_PasswordRequired)
    ELSE IF st = "UsedOnce" THEN ParseError(E_WrongPassword)
    ELSE ParseError(E_Malformed)

(***************************************************************************)
(* Encoded input, by what the parsing library finds in it.                 *)
(***************************************************************************)
NoPKey == PKey("none", NoGroup, -1, NoPoint, TRUE)

Blob(form, pw, key, err, tag) ==
    [form |-> form, pw |-> pw, key |-> key, err |-> err, tag |-> tag]
NoBlob == Blob("none", NoPassword, NoPKey, "none", "none")

\* openssl::pkey::PKey::private_key_from_der
private_key_from_der(data) ==
    IF data.form = "plain" THEN Parsed(data.key)
    ELSE ParseError("OpenSSLError: private_key_from_der")

\* an encrypted key decrypts only with its own password, handed over by a
\* single invocation of the callback
Decrypted(data, st, password) ==
    IF data.form = "encrypted" /\ st = "UsedOnce" /\ password = data.pw
    THEN Parsed(data.key)
    ELSE ParseError("OpenSSLError: private key parse")

\* openssl::pkey::PKey::private_key_from_pkcs8_callback, once it returns:
\* it reads encrypted PKCS#8 only
private_key_from_pkcs8_callback(data, st, password) ==
    Decrypted(data, st, password)

\* openssl::pkey::PKey::private_key_from_pem_callback, once it returns
private_key_from_pem_callback(data, st, password) ==
    IF data.form = "plain" THEN Parsed(data.key)
    ELSE Decrypted(data, st, password)

\* cryptography_key_parsing::spki::parse_public_key
parse_public_key(data) ==
    IF data.form = "spki" THEN Parsed(data.key)
    ELSE ParseError(data.err)

\* cryptography_key_parsing::rsa::parse_pkcs1_public_key
parse_pkcs1_public_key(data) ==
    IF data.form = "pkcs1" THEN Parsed(data.key)
    ELSE ParseError("KeyParsingError: pkcs1 RSA public key")

E_PemFraming == "PemError: MalformedFraming"
E_PemParse == "PemError: not a PEM document"

\* load_der_private_key_unencrypted without the test of the password
load_der_private_key_ignoring_password(pkey, password, unsafe_skip_rsa_key_validation) ==
    private_key_from_pkey(pkey, unsafe_skip_rsa_key_validation)

\* load_der_private_key, when the unencrypted parse has succeeded
load_der_private_key_unencrypted(pkey, password, unsafe_skip_rsa_key_validation) ==
    IF password # NoPassword THEN Err(E_PasswordGiven)
    ELSE private_key_from_pkey(pkey, unsafe_skip_rsa_key_validation)

\* load_private_key_finish with the parse result used as it comes, without
\* handle_key_load_result
load_private_key_finish_unchecked(pkey, st, password, unsafe_skip_rsa_key_validation) ==
    IF ~pkey.ok THEN Err(E_Malformed)
    ELSE private_key_from_pkey(pkey.key, unsafe_skip_rsa_key_validation)

\* load_der_private_key / load_pem_private_key, when the parse with the
\* password callback has returned
load_private_key_finish(pkey, st, password, unsafe_skip_rsa_key_validation) ==
    LET checked == handle_key_load_result(pkey, st, password) IN
    IF ~checked.ok THEN Err(checked.err)
    ELSE private_key_from_pkey(checked.key, unsafe_skip_rsa_key_validation)

\* load_der_public_key_bytes surfacing the error of the second parse
load_der_public_key_bytes_last_error(data) ==
    LET first == parse_public_key(data) IN
    IF first.ok
    THEN [res |-> public_key_from_pkey(first.key, first.key.id),
          tried |-> <<"spki">>]
    ELSE LET second == parse_pkcs1_public_key(data) IN
         IF ~second.ok
         THEN [res |-> Err(second.err), tried |-> <<"spki", "pkcs1">>]
         ELSE [res |-> public_key_from_pkey(second.key, second.key.id),
               tried |-> <<"spki", "pkcs1">>]

\* load_der_public_key_bytes falling back to the PKCS#1 parse also when the
\* key of the first parse is rejected afterwards
load_der_public_key_bytes_retrying(data) ==
    LET first == parse_public_key(data)
        loaded == IF first.ok THEN public_key_from_pkey(first.key, first.key.id)
                  ELSE Err(first.err)
    IN IF loaded.kind # "err"
       THEN [res |-> loaded, tried |-> <<"spki">>]
       ELSE LET second == parse_pkcs1_public_key(data) IN
            IF ~second.ok
            THEN [res |-> loaded, tried |-> <<"spki", "pkcs1">>]
            ELSE [res |-> public_key_from_pkey(second.key, second.key.id),
                  tried |-> <<"spki", "pkcs1">>]

\* load_der_public_key_bytes(py, data): the result and the parses attempted
load_der_public_key_bytes(data) ==
    LET first == parse_public_key(data) IN
    IF first.ok
    THEN [res |-> public_key_from_pkey(first.key, first.key.id),
          tried |-> <<"spki">>]
    ELSE LET second == parse_pkcs1_public_key(data) IN
         IF ~second.ok
         THEN [res |-> Err(first.err), tried |-> <<"spki", "pkcs1">>]
         ELSE [res |-> public_key_from_pkey(second.key, second.key.id),
               tried |-> <<"spki", "pkcs1">>]

\* load_pem_public_key trying both parsers whatever the label
load_pem_public_key_with_fallback(data) ==
    IF data.tag = "none" THEN [res |-> Err(E_PemParse), tried |-> <<>>]
    ELSE load_der_public_key_bytes(data)

\* load_pem_public_key(py, data, backend): the result and the parses attempted
load_pem_public_key(data) ==
    IF data.tag = "none" THEN [res |-> Err(E_PemParse), tried |-> <<>>]
    ELSE IF data.tag = "RSA PUBLIC KEY"
    THEN LET pkey == parse_pkcs1_public_key(data) IN
         [res |-> IF pkey.ok THEN public_key_from_pkey(pkey.key, pkey.key.id)
                  ELSE Err(pkey.err),
          tried |-> <<"pkcs1">>]
    ELSE IF data.tag = "PUBLIC KEY"
    THEN LET pkey == parse_public_key(data) IN
         [res |-> IF pkey.ok THEN public_key_from_pkey(pkey.key, pkey.key.id)
                  ELSE Err(pkey.err),
          tried |-> <<"spki">>]
    ELSE [res |-> Err(E_PemFraming), tried |-> <<>>]

(***************************************************************************)
(* Inputs offered by the callers.                                          *)
(***************************************************************************)
PyCurve(isCurve, name) == [isCurve |-> isCurve, name |-> name]

\* EllipticCurve instances, a curve class passed by mistake, and an object
\* without a name attribute
InstanceCurves == {PyCurve(TRUE, "secp256r1"), PyCurve(TRUE, "brainpoolP256r1"),
                   PyCurve(TRUE, "curve25519")}
PyCurves == InstanceCurves \cup {PyCurve(FALSE, "secp256r1"), PyCurve(FALSE, NoName)}

NativeGroups == {[nid |-> "X9_62_PRIME256V1", asn1 |-> "NAMED_CURVE"],
                 [nid |-> "X9_62_PRIME256V1", asn1 |-> "EXPLICIT_CURVE"],
                 [nid |-> "<none>", asn1 |-> "EXPLICIT_CURVE"],
                 [nid |-> "SECP112R1", asn1 |-> "NAMED_CURVE"]}

NativePrivateKeys ==
    {PKey("EC", g, 1, pt, TRUE) : g \in NativeGroups, pt \in {Generator, Inf}}
    \cup {PKey(id, NoGroup, -1, NoPoint, v) : id \in {"RSA", "RSA_PSS"}, v \in BOOLEAN}
    \cup {PKey(id, NoGroup, -1, NoPoint, TRUE) : id \in KeyIds \ {"RSA", "RSA_PSS", "EC"}}

\* the key types the public-key parsers produce
NativePublicKeys ==
    {PKey("EC", g, -1, pt, TRUE) : g \in NativeGroups, pt \in {Generator, Inf}}
    \cup {PKey(id, NoGroup, -1, NoPoint, TRUE) :
            id \in KeyIds \ {"RSA_PSS", "EC", "CMAC"}}

\* the keys offered inside encrypted containers: one per outcome of dispatch
EncryptedKeys ==
    {k \in NativePrivateKeys :
        /\ k.valid
        /\ k.id \in {"RSA", "EC", "CMAC"}
        /\ k.id = "EC" => k.group = [nid |-> "X9_62_PRIME256V1", asn1 |-> "NAMED_CURVE"]}

PrivateBlobs ==
    {Blob("garbage", NoPassword, NoPKey, "none", "none")}
    \cup {Blob("plain", NoPassword, k, "none", "none") : k \in NativePrivateKeys}
    \cup {Blob("encrypted", "correct", k, "none", "none") : k \in EncryptedKeys}

PublicDerBlobs ==
    {Blob("garbage", NoPassword, NoPKey, e, "none") :
        e \in {"KeyParsingError: spki parse", "KeyParsingError: spki unsupported key type"}}
    \cup {Blob("spki", NoPassword, k, "none", "none") : k \in NativePublicKeys}
    \cup {Blob("pkcs1", NoPassword, PKey("RSA", NoGroup, -1, NoPoint, TRUE),
               "KeyParsingError: spki parse", "none")}

PemTags == {"RSA PUBLIC KEY", "PUBLIC KEY", "EC PUBLIC KEY"}

PublicPemBlobs ==
    {[b EXCEPT !.tag = t] : b \in PublicDerBlobs, t \in PemTags}
    \cup {Blob("garbage", NoPassword, NoPKey, "none", "none")}

PointEncodings ==
    {<<>>, <<0>>, <<0, 0>>}
    \cup {<<4, x, y>> : x \in 0..(ToyCurve.p - 1), y \in 0..(ToyCurve.p - 1)}
    \cup {<<t, x>> : t \in {2, 3}, x \in 0..(ToyCurve.p - 1)}

SkipFlags(k) == IF k.id \in {"RSA", "RSA_PSS"} THEN BOOLEAN ELSE {FALSE}

\* ECDH(), ECDSA(SHA256()) and ECDSA(Prehashed(SHA256()))
Algorithms == {Algorithm("ECDH", FALSE), Algorithm("ECDSA", FALSE),
               Algorithm("ECDSA", TRUE)}

Datas == {Data("message", "m1"), Data("message", "m2"), Data("digest", "H(m1)"),
          Data("short", "00")}

Encodings == {"DER", "PEM", "OpenSSH"}

Signatures ==
    {Signature("der", "X9_62_PRIME256V1", pt, d) :
        pt \in FinitePoints, d \in {"H(m1)", "H(m2)"}}
    \cup {Signature("garbage", "<none>", NoPoint, NoDigest)}

(***************************************************************************)
(* The state machine.                                                      *)
(***************************************************************************)
NoCall == [op |-> "none", curve |-> NoCurve, scalar |-> -1, x |-> -1, y |-> -1,
           data |-> <<>>, werror |-> FALSE, blob |-> NoBlob,
           password |-> NoPassword, skip |-> FALSE, id |-> "none",
           pkey |-> NoPKey, self |-> NoKey, peer |-> NoKey,
           algorithm |-> Algorithm("none", FALSE), msg |-> Data("none", ""),
           signature |-> NoSignature]

Init ==
    /\ build \in Builds
    /\ pc = "idle"
    /\ call = NoCall
    /\ status = NoStatus
    /\ cbCount = 0
    /\ attempts = <<>>
    /\ result = NoResult
    /\ privKey = NoKey
    /\ pubKey = NoKey

\* a call that runs to completion in one step
Completes(c, r, tried) ==
    /\ pc' = "returned"
    /\ call' = c
    /\ result' = r
    /\ attempts' = tried
    /\ UNCHANGED <<build, status, cbCount, privKey, pubKey>>

Call_load_der_private_key ==
    /\ pc = "idle"
    /\ \E data \in PrivateBlobs, password \in Passwords \cup {NoPassword} :
       \E skip \in SkipFlags(data.key) :
           LET c == [NoCall EXCEPT !.op = "load_der_private_key", !.blob = data,
                                   !.password = password, !.skip = skip]
               pkey == private_key_from_der(data)
           IN IF pkey.ok
              THEN Completes(c, load_der_private_key_unencrypted(pkey.key, password, skip),
                             <<"private_key_from_der">>)
              ELSE /\ pc' = "pkcs8_parse"
                   /\ call' = c
                   /\ status' = "Unused"
                   /\ cbCount' = 0
                   /\ attempts' = <<"private_key_from_der", "private_key_from_pkcs8_callback">>
                   /\ UNCHANGED <<build, result, privKey, pubKey>>

\* Call_load_pem_private_key with a status that the load does not initialise
Call_load_pem_private_key_stale_status ==
    /\ pc = "idle"
    /\ \E data \in PrivateBlobs, password \in Passwords \cup {NoPassword} :
       \E skip \in SkipFlags(data.key) :
           /\ pc' = "pem_parse"
           /\ call' = [NoCall EXCEPT !.op = "load_pem_private_key", !.blob = data,
                                     !.password = password, !.skip = skip]
           /\ cbCount' = 0
           /\ attempts' = <<"private_key_from_pem_callback">>
           /\ UNCHANGED <<build, status, result, privKey, pubKey>>

Call_load_pem_private_key ==
    /\ pc = "idle"
    /\ \E data \in PrivateBlobs, password \in Passwords \cup {NoPassword} :
       \E skip \in SkipFlags(data.key) :
           /\ pc' = "pem_parse"
           /\ call' = [NoCall EXCEPT !.op = "load_pem_private_key", !.blob = data,
                                     !.password = password, !.skip = skip]
           /\ status' = "Unused"
           /\ cbCount' = 0
           /\ attempts' = <<"private_key_from_pem_callback">>
           /\ UNCHANGED <<build, result, privKey, pubKey>>

\* the parsing library asks for the password: only an encrypted key makes it
PasswordCallback ==
    /\ pc \in {"pkcs8_parse", "pem_parse"}
    /\ call.blob.form = "encrypted"
    /\ cbCount < MaxCallbacks
    /\ status' = password_callback(status)
    /\ cbCount' = cbCount + 1
    /\ UNCHANGED <<build, pc, call, attempts, result, privKey, pubKey>>

\* the parse returns and the loader finishes
ParseReturns ==
    /\ pc \in {"pkcs8_parse", "pem_parse"}
    /\ call.blob.form = "encrypted" => cbCount >= 1
    /\ LET pkey == IF pc = "pkcs8_parse"
                   THEN private_key_from_pkcs8_callback(call.blob, status, call.password)
                   ELSE private_key_from_pem_callback(call.blob, status, call.password)
       IN result' = load_private_key_finish(pkey, status, call.password, call.skip)
    /\ pc' = "returned"
    /\ UNCHANGED <<build, call, status, cbCount, attempts, privKey, pubKey>>

Call_private_key_from_ptr ==
    /\ pc = "idle"
    /\ \E pkey \in NativePrivateKeys, skip \in BOOLEAN :
           /\ skip \in SkipFlags(pkey)
           /\ Completes([NoCall EXCEPT !.op = "private_key_from_ptr", !.pkey = pkey,
                                       !.skip = skip],
                        private_key_from_pkey(pkey, skip), <<>>)

Call_load_der_public_key ==
    /\ pc = "idle"
    /\ \E data \in PublicDerBlobs :
           LET r == load_der_public_key_bytes(data) IN
           Completes([NoCall EXCEPT !.op = "load_der_public_key", !.blob = data],
                     r.res, r.tried)

Call_load_pem_public_key ==
    /\ pc = "idle"
    /\ \E data \in PublicPemBlobs :
           LET r == load_pem_public_key(data) IN
           Completes([NoCall EXCEPT !.op = "load_pem_public_key", !.blob = data],
                     r.res, r.tried)

\* public_key_from_pkey called with an id of the caller's choice, as the
\* unit test of keys.rs does
Call_public_key_from_pkey ==
    /\ pc = "idle"
    /\ \E pkey \in NativePublicKeys, id \in KeyIds :
           Completes([NoCall EXCEPT !.op = "public_key_from_pkey", !.pkey = pkey,
                                    !.id = id],
                     public_key_from_pkey(pkey, id), <<>>)

Call_curve_supported ==
    /\ pc = "idle"
    /\ \E py_curve \in PyCurves :
           Completes([NoCall EXCEPT !.op = "curve_supported", !.curve = py_curve],
                     curve_supported(py_curve), <<>>)

Call_generate_private_key ==
    /\ pc = "idle"
    /\ \E curve \in PyCurves, d \in 1..(ToyCurve.n - 1), werror \in BOOLEAN :
           /\ curve.isCurve => ~werror
           /\ Completes([NoCall EXCEPT !.op = "generate_private_key", !.curve = curve,
                                       !.werror = werror],
                        generate_private_key(curve, werror, d), <<>>)

Call_derive_private_key ==
    /\ pc = "idle"
    /\ \E py_curve \in PyCurves, private_value \in 0..MaxScalar :
           Completes([NoCall EXCEPT !.op = "derive_private_key", !.curve = py_curve,
                                    !.scalar = private_value],
                     derive_private_key(private_value, py_curve), <<>>)

Call_from_public_bytes ==
    /\ pc = "idle"
    /\ \E py_curve \in PyCurves, data \in PointEncodings :
           Completes([NoCall EXCEPT !.op = "from_public_bytes", !.curve = py_curve,
                                    !.data = data],
                     from_public_bytes(py_curve, data), <<>>)

Call_ECPrivateKey_public_key ==
    /\ pc = "idle"
    /\ privKey # NoKey
    /\ Completes([NoCall EXCEPT !.op = "ECPrivateKey.public_key", !.self = privKey],
                 ECPrivateKey_public_key(privKey), <<>>)

Call_ECPrivateKey_exchange ==
    /\ pc = "idle"
    /\ privKey # NoKey
    /\ pubKey # NoKey
    /\ \E algorithm \in Algorithms :
           Completes([NoCall EXCEPT !.op = "ECPrivateKey.exchange", !.self = privKey,
                                    !.peer = pubKey, !.algorithm = algorithm],
                     ECPrivateKey_exchange(privKey, algorithm, pubKey), <<>>)

Call_ECPrivateKey_sign ==
    /\ pc = "idle"
    /\ privKey # NoKey
    /\ \E data \in Datas, algorithm \in Algorithms :
           Completes([NoCall EXCEPT !.op = "ECPrivateKey.sign", !.self = privKey,
                                    !.msg = data, !.algorithm = algorithm],
                     ECPrivateKey_sign(privKey, data, algorithm), <<>>)

Call_ECPublicKey_verify ==
    /\ pc = "idle"
    /\ pubKey # NoKey
    /\ \E signature \in Signatures, data \in Datas, algorithm \in Algorithms :
           Completes([NoCall EXCEPT !.op = "ECPublicKey.verify", !.self = pubKey,
                                    !.signature = signature, !.msg = data,
                                    !.algorithm = algorithm],
                     ECPublicKey_verify(pubKey, signature, data, algorithm), <<>>)

Call_key_size ==
    /\ pc = "idle"
    /\ \E self \in {privKey, pubKey} \ {NoKey} :
           Completes([NoCall EXCEPT !.op = IF self.kind = "private"
                                           THEN "ECPrivateKey.key_size"
                                           ELSE "ECPublicKey.key_size",
                                    !.self = self],
                     key_size(self), <<>>)

Call_ECPrivateKey_private_numbers ==
    /\ pc = "idle"
    /\ privKey # NoKey
    /\ Completes([NoCall EXCEPT !.op = "ECPrivateKey.private_numbers", !.self = privKey],
                 ECPrivateKey_private_numbers(privKey), <<>>)

Call_ECPublicKey_public_numbers ==
    /\ pc = "idle"
    /\ pubKey # NoKey
    /\ Completes([NoCall EXCEPT !.op = "ECPublicKey.public_numbers", !.self = pubKey],
                 ECPublicKey_public_numbers(pubKey), <<>>)

Call_ECPrivateKey_private_bytes ==
    /\ pc = "idle"
    /\ privKey # NoKey
    /\ \E encoding \in Encodings :
           Completes([NoCall EXCEPT !.op = "ECPrivateKey.private_bytes", !.self = privKey,
                                    !.id = encoding],
                     ECPrivateKey_private_bytes(privKey, encoding), <<>>)

Call_ECPublicKey_public_bytes ==
    /\ pc = "idle"
    /\ pubKey # NoKey
    /\ \E encoding \in Encodings :
           Completes([NoCall EXCEPT !.op = "ECPublicKey.public_bytes", !.self = pubKey,
                                    !.id = encoding],
                     ECPublicKey_public_bytes(pubKey, encoding), <<>>)

\* the other key is the one held or the public key of the private key held
Call_ECPublicKey_eq ==
    /\ pc = "idle"
    /\ pubKey # NoKey
    /\ \E other \in {pubKey} \cup (IF privKey = NoKey THEN {}
                                   ELSE {ECPrivateKey_public_key(privKey).key}) :
           Completes([NoCall EXCEPT !.op = "ECPublicKey.__eq__", !.self = pubKey,
                                    !.peer = other],
                     ECPublicKey_eq(pubKey, other), <<>>)

Call_ECPublicKey_copy ==
    /\ pc = "idle"
    /\ pubKey # NoKey
    /\ Completes([NoCall EXCEPT !.op = "ECPublicKey.__copy__", !.self = pubKey],
                 ECPublicKey_copy(pubKey), <<>>)

\* numbers objects hold an EllipticCurve instance (EllipticCurvePublicNumbers::new)
Call_EllipticCurvePublicNumbers_public_key ==
    /\ pc = "idle"
    /\ \E curve \in InstanceCurves, x \in -1..MaxCoord, y \in -1..MaxCoord :
           Completes([NoCall EXCEPT !.op = "EllipticCurvePublicNumbers.public_key",
                                    !.curve = curve, !.x = x, !.y = y],
                     EllipticCurvePublicNumbers_public_key(x, y, curve), <<>>)

Call_EllipticCurvePrivateNumbers_private_key ==
    /\ pc = "idle"
    /\ \E curve \in InstanceCurves, x \in -1..MaxCoord, y \in -1..MaxCoord,
          private_value \in 0..MaxScalar :
           Completes([NoCall EXCEPT !.op = "EllipticCurvePrivateNumbers.private_key",
                                    !.curve = curve, !.x = x, !.y = y,
                                    !.scalar = private_value],
                     EllipticCurvePrivateNumbers_private_key(private_value, x, y, curve),
                     <<>>)

\* the caller takes the result; it keeps an EC key object it was given
Return ==
    /\ pc = "returned"
    /\ pc' = "idle"
    /\ privKey' = IF Ok(result) /\ result.key.family = "EC" /\ result.key.kind = "private"
                  THEN result.key ELSE privKey
    /\ pubKey' = IF Ok(result) /\ result.key.family = "EC" /\ result.key.kind = "public"
                 THEN result.key ELSE pubKey
    /\ call' = NoCall
    /\ result' = NoResult
    /\ status' = NoStatus
    /\ cbCount' = 0
    /\ attempts' = <<>>
    /\ UNCHANGED build

Next ==
    \/ Call_load_der_private_key
    \/ Call_load_pem_private_key
    \/ PasswordCallback
    \/ ParseReturns
    \/ Call_private_key_from_ptr
    \/ Call_load_der_public_key
    \/ Call_load_pem_public_key
    \/ Call_public_key_from_pkey
    \/ Call_curve_supported
    \/ Call_generate_private_key
    \/ Call_derive_private_key
    \/ Call_from_public_bytes
    \/ Call_ECPrivateKey_public_key
    \/ Call_ECPrivateKey_exchange
    \/ Call_ECPrivateKey_sign
    \/ Call_ECPublicKey_verify
    \/ Call_key_size
    \/ Call_ECPrivateKey_private_numbers
    \/ Call_ECPublicKey_public_numbers
    \/ Call_ECPrivateKey_private_bytes
    \/ Call_ECPublicKey_public_bytes
    \/ Call_ECPublicKey_eq
    \/ Call_ECPublicKey_copy
    \/ Call_EllipticCurvePublicNumbers_public_key
    \/ Call_EllipticCurvePrivateNumbers_private_key
    \/ Return

Spec == Init /\ [][Next]_vars

(***************************************************************************)
(* Properties.                                                             *)
(***************************************************************************)
Returned == pc = "returned"
ReturnedKey == Returned /\ Ok(result) /\ result.key # NoKey
ReturnedECKey == ReturnedKey /\ result.key.family = "EC"

\* C1: every EC key object a construction path returns, and so every key
\* object the caller holds, has a public point that is not the point at
\* infinity.
C1_PublicPointNeverIdentity ==
    /\ ReturnedECKey => ~is_infinity(result.key.point)
    /\ privKey # NoKey => ~is_infinity(privKey.point)
    /\ pubKey # NoKey => ~is_infinity(pubKey.point)


PrivateLoaders == {"load_der_private_key", "load_pem_private_key"}
Parsing == {"pkcs8_parse", "pem_parse"}

\* the key bytes parsed although the callback was never asked for the password
ParsedWithoutPassword ==
    \/ call.op = "load_der_private_key" /\ attempts = <<"private_key_from_der">>
    \/ /\ call.op = "load_pem_private_key"
       /\ status = "Unused"
       /\ private_key_from_pem_callback(call.blob, status, call.password).ok

\* C2: in both private-key loaders, a key that parses without the password
\* being consumed while a password was supplied is rejected with "Password
\* was given but private key is not encrypted", before the dispatch on the
\* key type and whatever that type is; no key object is returned.
C2_PasswordGivenButNotEncrypted ==
    (Returned /\ ParsedWithoutPassword /\ call.password # NoPassword)
        => result = Err(E_PasswordGiven)

C2_Witness ==
    /\ Returned
    /\ call.op = "load_der_private_key"
    /\ ParsedWithoutPassword
    /\ call.password = "correct"
    /\ call.blob.key.id = "ED25519"
    /\ result.err = E_PasswordGiven

C3_Step ==
    /\ (pc = "idle" /\ pc' \in Parsing) => (status' = "Unused" /\ cbCount' = 0)
    /\ (pc \in Parsing /\ cbCount = 0 /\ cbCount' = 1)
          => (status = "Unused" /\ status' = "UsedOnce")
    /\ (pc \in Parsing /\ status # "Unused") => status' # "Unused"
    /\ (pc \in Parsing /\ cbCount >= 1 /\ cbCount' = cbCount + 1)
          => status' \notin {"Unused", "UsedOnce"}

C3_State ==
    /\ pc \in Parsing => (status = "Unused" <=> cbCount = 0)
    /\ (Returned /\ call.op \in PrivateLoaders /\ cbCount > 1)
          => (result = Err(E_Ambiguous))

\* C3: within a load the callback status starts at Unused, becomes UsedOnce
\* at the first invocation of the callback and never returns to Unused; a
\* second invocation leaves UsedOnce for the rejected state, and a load
\* whose callback ran more than once returns the ambiguous-password error
\* and no key. Every load starts from Unused.
C3_PasswordCallbackStatus == [][C3_Step]_vars /\ []C3_State

C3_Witness ==
    /\ Returned
    /\ call.op = "load_pem_private_key"
    /\ call.password = call.blob.pw
    /\ cbCount = 2
    /\ status = "Ambiguous"
    /\ result.err = E_Ambiguous

\* C4: an encrypted private key loaded with no password or with a wrong one
\* fails with a password error and yields no key; bytes that do not parse
\* fail with the malformed-encoding error, which is not a password error.
C4_PasswordErrorNotMalformed ==
    (Returned /\ call.op \in PrivateLoaders) =>
        /\ (call.blob.form = "encrypted" /\ call.password # call.blob.pw)
              => /\ result.kind = "err"
                 /\ result.err \in PasswordErrors \ {E_Malformed}
                 /\ result.key = NoKey
        /\ call.blob.form = "garbage" => result = Err(E_Malformed)

C4_Witness ==
    /\ Returned
    /\ call.op = "load_pem_private_key"
    /\ call.blob.form = "encrypted"
    /\ call.password = "wrong"
    /\ cbCount = 1
    /\ result = Err(E_WrongPassword)

\* C5: load_der_public_key tries the subjectPublicKeyInfo parse first and the
\* PKCS#1 RSA parse only when the first has failed; when both fail the error
\* returned is the error of the first parse, not that of the second.
C5_DerPublicKeyOriginalError ==
    (Returned /\ call.op = "load_der_public_key") =>
        LET first == parse_public_key(call.blob)
            second == parse_pkcs1_public_key(call.blob)
        IN /\ first.ok => attempts = <<"spki">>
           /\ ~first.ok => attempts = <<"spki", "pkcs1">>
           /\ (~first.ok /\ second.ok)
                 => result = public_key_from_pkey(second.key, second.key.id)
           /\ (~first.ok /\ ~second.ok)
                 => (result = Err(first.err) /\ result.err # second.err)

C5_Witness ==
    /\ Returned
    /\ call.op = "load_der_public_key"
    /\ call.blob.form = "garbage"
    /\ attempts = <<"spki", "pkcs1">>
    /\ result.err = "KeyParsingError: spki unsupported key type"

\* C6: load_pem_public_key chooses the parser by the PEM label alone: "RSA
\* PUBLIC KEY" runs only the PKCS#1 parse, "PUBLIC KEY" only the
\* subjectPublicKeyInfo parse, any other label fails with the
\* malformed-framing error and runs no parse; a failed parse is never
\* followed by the other one.
C6_PemPublicKeyByLabel ==
    (Returned /\ call.op = "load_pem_public_key" /\ call.blob.tag # "none") =>
        /\ call.blob.tag = "RSA PUBLIC KEY" =>
              /\ attempts = <<"pkcs1">>
              /\ ~parse_pkcs1_public_key(call.blob).ok
                    => result = Err(parse_pkcs1_public_key(call.blob).err)
        /\ call.blob.tag = "PUBLIC KEY" =>
              /\ attempts = <<"spki">>
              /\ ~parse_public_key(call.blob).ok
                    => result = Err(parse_public_key(call.blob).err)
        /\ call.blob.tag \notin {"RSA PUBLIC KEY", "PUBLIC KEY"} =>
              /\ attempts = <<>>
              /\ result = Err(E_PemFraming)

C6_Witness ==
    /\ Returned
    /\ call.op = "load_pem_public_key"
    /\ call.blob.tag = "PUBLIC KEY"
    /\ call.blob.form = "pkcs1"
    /\ attempts = <<"spki">>
    /\ result.kind = "err"

\* the call went through one of the two algorithm-family dispatches
WasDispatched == Returned /\ result.via # "none"

\* the families the specification lists as supported, by key-type id
SupportedFamilies == {"RSA", "RSA_PSS", "EC", "X25519", "X448", "ED25519",
                      "ED448", "DSA", "DH", "DHX"}

\* the family whose constructor serves a key-type id
FamilyOf(id) == CASE id = "RSA_PSS" -> "RSA" [] id = "DHX" -> "DH" [] OTHER -> id

Unsupported(r) ==
    /\ r.kind = "err"
    /\ r.err = E_UnsupportedKeyType
    /\ r.key = NoKey
    /\ r.routed = "none"

\* C7 as stated: in both dispatches an id outside the ten listed families
\* gives "Unsupported key type." and no key, and every listed id is routed
\* to the constructor of its family.
C7_AsStated ==
    WasDispatched =>
        /\ result.id \notin SupportedFamilies => Unsupported(result)
        /\ result.id \in SupportedFamilies => result.routed = FamilyOf(result.id)

\* the ids for which the dispatch `via` has an arm in this build
HasArm(via, id) ==
    \/ id \in {"RSA", "EC", "X25519", "ED25519", "DSA", "DH"}
    \/ id \in {"X448", "ED448", "DHX"} /\ NotOnLibreOrBoring
    \/ id = "RSA_PSS" /\ via = "private" /\ RsaPssArm

\* C7 (amended): an id without an arm in the dispatch at hand (the public
\* dispatch has none for RSA_PSS; the X448, ED448 and DHX arms and the
\* private RSA_PSS arm depend on the build) gives "Unsupported key type."
\* and no key; an id with an arm is routed to the constructor of its own
\* family, and a key that comes back is of that family and of the
\* dispatch's kind.
C7_UnsupportedKeyType ==
    WasDispatched =>
        /\ ~HasArm(result.via, result.id) => Unsupported(result)
        /\ HasArm(result.via, result.id) =>
              /\ result.routed = FamilyOf(result.id)
              /\ Ok(result) => /\ result.key.family = FamilyOf(result.id)
                               /\ result.key.kind = result.via

C7_Witness ==
    /\ Returned
    /\ call.op = "public_key_from_pkey"
    /\ call.pkey.id = "X25519"
    /\ call.id = "CMAC"
    /\ Unsupported(result)

\* C8 as stated: in both dispatches a key whose id is RSA_PSS goes through
\* the plain-RSA path and is never rejected as an unsupported key type.
C8_AsStated ==
    (WasDispatched /\ result.id = "RSA_PSS") =>
        /\ result.routed = "RSA"
        /\ result.err # E_UnsupportedKeyType

\* C8 (amended): the private dispatch, on a build that has the RSA_PSS arm,
\* hands an RSA_PSS key to the plain-RSA constructor, whose outcome (an
\* ordinary RSA private key, or its own rejection of the key) is returned;
\* the public dispatch, and the private one on a build without the arm,
\* give "Unsupported key type." for the id RSA_PSS.
C8_RsaPssThroughPlainRsa ==
    (WasDispatched /\ result.id = "RSA_PSS") =>
        IF result.via = "private" /\ RsaPssArm
        THEN /\ result.routed = "RSA"
             /\ result.err \in {"none", E_InvalidRsaKey}
             /\ Ok(result) <=> result.key = FamilyKey("private", "RSA")
        ELSE Unsupported(result)

C8_Witness ==
    /\ Returned
    /\ call.op = "load_der_private_key"
    /\ call.blob.key.id = "RSA_PSS"
    /\ RsaPssArm
    /\ result.id = "RSA_PSS"
    /\ result.key = FamilyKey("private", "RSA")

StrictOps == {"derive_private_key", "from_public_bytes",
              "EllipticCurvePublicNumbers.public_key",
              "EllipticCurvePrivateNumbers.private_key"}

\* the call passed an object that is not an EllipticCurve instance
NonInstance == Returned /\ call.curve # NoCurve /\ ~call.curve.isCurve

\* the outcome is that of the name lookup
ContinuedToNameLookup ==
    LET lookup == curve_name_lookup(call.curve, TRUE) IN
    IF lookup.ok THEN Ok(result) ELSE result.kind = "err" /\ result.err = lookup.err

\* what C9 says of every caller but generate_private_key
C9_Strict ==
    /\ (NonInstance /\ call.op \in StrictOps) => result = Err(E_CurveType)
    /\ (NonInstance /\ call.op = "curve_supported") => result = OkBool(FALSE)
    /\ (Returned /\ result.warned) => call.op = "generate_private_key"

\* C9 as stated: with the leniency (generate_private_key only) a
\* non-instance is warned about and the resolution continues to the name
\* lookup; every other caller resolves strictly.
C9_AsStated ==
    /\ C9_Strict
    /\ (NonInstance /\ call.op = "generate_private_key")
          => (result.warned /\ ContinuedToNameLookup)

\* C9 (amended): with the leniency (generate_private_key only) a
\* non-instance is warned about and the resolution continues to the name
\* lookup, unless emitting the warning itself raises (warnings turned into
\* errors), in which case that error is returned; every other caller
\* resolves strictly: a type error, or false from curve_supported.
C9_CurveResolutionLeniency ==
    /\ C9_Strict
    /\ (NonInstance /\ call.op = "generate_private_key") =>
          /\ result.warned
          /\ IF call.werror THEN result = Warned(Err(E_Deprecated), TRUE)
             ELSE ContinuedToNameLookup

C9_Witness ==
    /\ NonInstance
    /\ call.op = "generate_private_key"
    /\ call.curve.name = "secp256r1"
    /\ ~call.werror
    /\ result.warned
    /\ Ok(result)
    /\ result.key.group.nid = "X9_62_PRIME256V1"

\* the key carries a descriptor of the registry and the named group of it
NamedSupportedCurve(k) ==
    /\ k.curve.name \in DOMAIN CurveTable
    /\ k.group.asn1 = "NAMED_CURVE"
    /\ k.group.nid = CurveTable[k.curve.name]

FromDescriptor == StrictOps \cup {"generate_private_key"}

\* the native key a loader or a dispatch was given
NativeKey == IF call.op \in {"private_key_from_ptr", "public_key_from_pkey"}
             THEN call.pkey ELSE call.blob.key

UnnamedOrUnknown(g) ==
    \/ g.nid = "<none>"
    \/ g.asn1 = "EXPLICIT_CURVE"
    \/ short_name(g.nid) \notin DOMAIN CURVE_TYPES

\* C10: every EC key object returned or held carries a named curve of the
\* registry; a native EC key whose group has no name, is flagged as
\* explicit parameters or has a name outside the name-to-descriptor table is
\* rejected by the loaders and by private_key_from_ptr with no key returned;
\* a key built from a caller's descriptor is returned only if the
\* descriptor's name is in the curve-name table.
C10_NamedSupportedCurve ==
    /\ ReturnedECKey => NamedSupportedCurve(result.key)
    /\ privKey # NoKey => NamedSupportedCurve(privKey)
    /\ pubKey # NoKey => NamedSupportedCurve(pubKey)
    /\ (WasDispatched /\ result.id = "EC" /\ NativeKey.id = "EC"
            /\ UnnamedOrUnknown(NativeKey.group))
          => /\ result.kind = "err"
             /\ result.err \in {E_ExplicitParams, E_NotSupportedCurve}
             /\ result.key = NoKey
    /\ (ReturnedECKey /\ call.op \in FromDescriptor) => call.curve.name \in CurveNames

C10_Witness ==
    /\ Returned
    /\ call.op = "load_pem_private_key"
    /\ call.blob.key.id = "EC"
    /\ call.blob.key.group = [nid |-> "X9_62_PRIME256V1", asn1 |-> "EXPLICIT_CURVE"]
    /\ result = Dispatched(Routed(Err(E_ExplicitParams), "EC"), "EC", "private")

NumbersOps == {"EllipticCurvePublicNumbers.public_key",
               "EllipticCurvePrivateNumbers.private_key"}

\* a numbers-to-key call whose curve descriptor resolved
NumbersCall == Returned /\ call.op \in NumbersOps /\ call.curve.name \in CurveNames

\* C11: on every supported curve, building a key from numbers fails with
\* "Both x and y must be non-negative" whenever x < 0 or y < 0 (whether or
\* not the point would be on the curve), fails with "Point is not on the
\* curve specified" whenever x and y are non-negative and (x, y) does not
\* satisfy the curve equation, and the public-numbers constructor returns a
\* key only for non-negative x, y satisfying the curve equation, the key's
\* point being that point.
C11_NumbersToPublicKey ==
    NumbersCall =>
        /\ (call.x < 0 \/ call.y < 0) => result = Err(E_Negative)
        /\ (call.x >= 0 /\ call.y >= 0 /\ ~OnCurve(call.x, call.y))
              => result = Err(E_NotOnCurve)
        /\ Ok(result) =>
              /\ call.x >= 0 /\ call.y >= 0 /\ OnCurve(call.x, call.y)
              /\ result.key.point = <<FMod(call.x), FMod(call.y)>>
        /\ (call.op = "EllipticCurvePublicNumbers.public_key"
                /\ call.x \in 0..(ToyCurve.p - 1) /\ call.y \in 0..(ToyCurve.p - 1)
                /\ OnCurve(call.x, call.y))
              => result = OkKey(ECPublicKey(PKey("EC", from_curve_name(CurveTable[call.curve.name]),
                                                 -1, <<call.x, call.y>>, TRUE),
                                            call.curve), "EC")

C11_Witness ==
    /\ NumbersCall
    /\ call.op = "EllipticCurvePublicNumbers.public_key"
    /\ call.x = -1
    /\ call.y = 0
    /\ result = Err(E_Negative)

\* a call of EllipticCurvePrivateNumbers.private_key whose curve resolved
PrivateNumbersCall ==
    NumbersCall /\ call.op = "EllipticCurvePrivateNumbers.private_key"

\* the point the supplied public numbers denote on the curve, if any
SuppliedPoint == set_affine_coordinates_gfp(call.x, call.y)

InvalidKeyErrors == {E_Negative, E_NotOnCurve, E_InvalidECKey}

VerifierReached ==
    /\ Returned
    /\ call.op = "ECPublicKey.verify"
    /\ call.algorithm.iface = "ECDSA"
    /\ calculate_digest_and_algorithm(call.msg, call.algorithm).ok

\* what the verifier finds for the call's key, data and signature
Verified ==
    verify(call.self, calculate_digest_and_algorithm(call.msg, call.algorithm).digest,
           call.signature)

\* C13: with an ECDSA descriptor, verify returns the InvalidSignature error
\* exactly when the verifier finds the signature not to be one of the key
\* over the data; signature bytes on which the verifier fails with an error
\* are reported as an error that is not InvalidSignature.
C13_InvalidSignatureOnlyForInvalid ==
    VerifierReached =>
        /\ result.err = E_InvalidSignature <=> (Verified.ok /\ ~Verified.valid)
        /\ ~Verified.ok => (result.kind = "err" /\ result.err # E_InvalidSignature)

ExchangeCall == Returned /\ call.op = "ECPrivateKey.exchange"

\* C14: exchange with a descriptor that is not ECDH fails with "Unsupported
\* EC exchange algorithm" whatever the peer is, also a peer with which the
\* derivation would fail; with an ECDH descriptor every failure is "Error
\* computing shared key.", a peer on another curve is such a failure, and
\* for a peer on the key's curve the outcome is that of the derivation
\* alone (the secret of private value * peer point, or that error): no
\* validation of the peer point adds an outcome of its own.
C14_ExchangeErrors ==
    ExchangeCall =>
        /\ call.algorithm.iface # "ECDH" => result = Err(E_UnsupportedExchange)
        /\ call.algorithm.iface = "ECDH" =>
              /\ result.kind = "err" => result = Err(E_SharedKey)
              /\ call.peer.group.nid # call.self.group.nid => result = Err(E_SharedKey)
              /\ call.peer.group.nid = call.self.group.nid =>
                    result = IF derive(call.self, call.peer).ok
                             THEN OkInt(PointMul(call.self.priv, call.peer.point)[1])
                             ELSE Err(E_SharedKey)

C14_Witness ==
    /\ ExchangeCall
    /\ call.algorithm.iface = "ECDH"
    /\ call.self.group.nid = "X9_62_PRIME256V1"
    /\ call.peer.group.nid = "BRAINPOOL_P256R1"
    /\ result = Err(E_SharedKey)

PrivateKeyMethods == {"ECPrivateKey.key_size", "ECPrivateKey.exchange",
                      "ECPrivateKey.sign", "ECPrivateKey.public_key",
                      "ECPrivateKey.private_numbers", "ECPrivateKey.private_bytes"}
PublicKeyMethods == {"ECPublicKey.key_size", "ECPublicKey.verify",
                     "ECPublicKey.public_numbers", "ECPublicKey.public_bytes",
                     "ECPublicKey.__eq__", "ECPublicKey.__copy__"}

\* a step that calls a method of a key object leaves the objects as they
\* are, and so does the return of the method for the object it was called on
C15_Step ==
    /\ (pc = "idle" /\ call'.op \in PrivateKeyMethods)
          => (call'.self = privKey /\ privKey' = privKey /\ pubKey' = pubKey)
    /\ (pc = "idle" /\ call'.op \in PublicKeyMethods)
          => (call'.self = pubKey /\ privKey' = privKey /\ pubKey' = pubKey)
    /\ (pc = "returned" /\ call.op \in PrivateKeyMethods) => privKey' = call.self
    /\ (pc = "returned" /\ call.op \in PublicKeyMethods)
          => (pubKey' = call.self /\ privKey' = privKey)
    /\ (pc = "returned" /\ call.op = "ECPrivateKey.exchange") => pubKey' = call.peer

\* when a method has returned, with a value or with an error, the object it
\* was called on is as it was constructed; public_key() gives a public key
\* with the curve descriptor, the group and the point of the private key and
\* no private scalar
C15_State ==
    /\ (Returned /\ call.op \in PrivateKeyMethods) => privKey = call.self
    /\ (Returned /\ call.op \in PublicKeyMethods) => pubKey = call.self
    /\ (Returned /\ call.op = "ECPrivateKey.public_key") =>
          /\ Ok(result)
          /\ result.key.kind = "public"
          /\ result.key.curve = call.self.curve
          /\ result.key.group = call.self.group
          /\ result.key.point = call.self.point
          /\ result.key.priv = -1
    /\ (Returned /\ call.op = "ECPublicKey.__copy__") => result.key = call.self

\* C15: no operation on a key object (key_size, exchange, sign, public_key,
\* private_numbers, private_bytes, verify, public_numbers, public_bytes,
\* equality, copy), failing or not, changes the key material or the curve
\* descriptor of the object; public_key() yields a public key with the same
\* curve descriptor and public point and without the private scalar.
C15_KeyObjectsImmutable == [][C15_Step]_vars /\ []C15_State

C15_Witness ==
    /\ Returned
    /\ call.op = "ECPrivateKey.sign"
    /\ call.algorithm.iface = "ECDH"
    /\ result = Err(E_UnsupportedSignature)
    /\ privKey = call.self
    /\ privKey.priv = 2

\* the functions that construct an EC key object from outside material
ConstructionPaths ==
    {"load_der_private_key", "load_pem_private_key", "private_key_from_ptr",
     "load_der_public_key", "load_pem_public_key", "public_key_from_pkey",
     "generate_private_key", "derive_private_key", "from_public_bytes",
     "EllipticCurvePublicNumbers.public_key",
     "EllipticCurvePrivateNumbers.private_key"}

\* C16: every EC construction path applies check_key_infinity to the key
\* before returning it, generate_private_key and
\* EllipticCurvePrivateNumbers.private_key included, as private_key_from_pkey,
\* public_key_from_pkey and derive_private_key do; so a returned key has
\* passed the check and its point is not the point at infinity.
C16_EveryPathChecksInfinity ==
    (ReturnedECKey /\ call.op \in ConstructionPaths) =>
        /\ result.checked
        /\ check_key_infinity(result.key)

Loaders ==
    {"load_der_private_key", "load_pem_private_key",
     "load_der_public_key", "load_pem_public_key"}

\* the first parse of the call in progress succeeded
FirstParseSucceeded ==
    \/ call.op = "load_der_private_key" /\ private_key_from_der(call.blob).ok
    \/ call.op = "load_der_public_key" /\ parse_public_key(call.blob).ok

\* C17: a loader call makes at most two parse attempts and the second only
\* when the first parse itself failed: load_der_private_key runs the PKCS#8
\* parse with the password callback only after the unencrypted parse failed,
\* load_der_public_key the PKCS#1 parse only after the subjectPublicKeyInfo
\* parse failed; once a parse has succeeded, whatever the loader then does
\* with the key (password-supplied rejection, unsupported key type, curve or
\* infinity validation) is the outcome of the call and no other parse runs.
C17_AtMostTwoParseAttempts ==
    call.op \in Loaders =>
        /\ Len(attempts) <= 2
        /\ Len(attempts) = 2 =>
               /\ call.op \in {"load_der_private_key", "load_der_public_key"}
               /\ ~FirstParseSucceeded
        /\ (FirstParseSucceeded /\ Returned) =>
               /\ Len(attempts) = 1
               /\ call.op = "load_der_private_key" =>
                      result = load_der_private_key_unencrypted(
                                   private_key_from_der(call.blob).key,
                                   call.password, call.skip)
               /\ call.op = "load_der_public_key" =>
                      LET pkey == parse_public_key(call.blob).key
                      IN result = public_key_from_pkey(pkey, pkey.id)

\* a key that parsed at the first attempt and was rejected afterwards
C17_Witness ==
    /\ Returned
    /\ call.op = "load_der_public_key"
    /\ FirstParseSucceeded
    /\ result.kind = "err"
    /\ attempts = <<"spki">>

=============================================================================
